---- MODULE Spec2Model ----
(***************************************************************************)
(* Model of the cinema booking server (src/server.js, src/db.js): the      *)
(* sessions ("showings"), bookings ("reservations") and halls ("rooms")    *)
(* tables and the HTTP handlers that change them.                          *)
(*                                                                         *)
(* Times are milliseconds counted from an arbitrary origin instead of the  *)
(* Unix epoch, so that they fit TLC's integers.                            *)
(***************************************************************************)
EXTENDS Integers, Sequences, FiniteSets, TLC

VARIABLES
    sessions,   \* table sessions: id -> [movie, start_at, duration_min, hall_id]
    bookings,   \* table bookings: id -> [session_id, customer_name, tickets]
    nextSid,    \* number of session ids handed out by uuidv4() so far
    nextBid,    \* number of booking ids handed out by uuidv4() so far
    now,        \* Date.now()
    pending,    \* requests received and not yet given to their handler
    running     \* handler invocations that have started and not yet returned

vars == <<sessions, bookings, nextSid, nextBid, now, pending, running>>

(***************************************************************************)
(* Constants of db.js and server.js                                        *)
(***************************************************************************)
PAUSE_MINUTES == 15
MAX_TICKETS_PER_PERSON == 8
MIN_SESSION_DURATION == 60
MAX_SESSION_DURATION == 240
MS_PER_MINUTE == 60000
LEAD_MS == 60 * 60 * 1000

(***************************************************************************)
(* Bounds of the model                                                     *)
(***************************************************************************)
MaxSessions == 2      \* session ids ever created
MaxBookings == 2      \* booking ids ever created
MaxTicks == 1         \* half hours the clock advances
CapHall1 == 12        \* capacity of HALL-1 in the halls table
CapHall2 == 4         \* capacity of HALL-2 in the halls table

SessionIds == 1..MaxSessions
BookingIds == 1..MaxBookings

(***************************************************************************)
(* Table halls. seedHallsIfEmpty fills it only when it is empty, so its    *)
(* rows are whatever the database file holds; the schema allows any        *)
(* capacity >= 0. No handler writes to it.                                 *)
(***************************************************************************)
halls == [h \in {"HALL-1", "HALL-2"} |->
            [capacity |-> IF h = "HALL-1" THEN CapHall1 ELSE CapHall2]]

(***************************************************************************)
(* JavaScript values of a JSON body, and the conversions the code applies  *)
(* to them. A number is [nan, v]; NaN compares false with everything.      *)
(***************************************************************************)
Num(n) == [nan |-> FALSE, v |-> n]
NaN == [nan |-> TRUE, v |-> 0]
JsNumber(n) == [t |-> "number", n |-> n]
JsString(s) == [t |-> "string", s |-> s]

\* StringToNumber of ECMAScript on the string literals the model uses:
\* surrounding white space is skipped, inner white space gives NaN.
StringToNumber(s) ==
    CASE s = "60"    -> Num(60)
      [] s = "6015"  -> Num(6015)
      [] s = "90 "   -> Num(90)
      [] s = "4"     -> Num(4)
      [] OTHER       -> NaN        \* "90 15", "abc"

\* Number(x)
ToNumber(x) == IF x.t = "number" THEN Num(x.n) ELSE StringToNumber(x.s)

\* x + k for a number k: addition of numbers, concatenation for a string
JsPlus(x, k) ==
    IF x.t = "number" THEN JsNumber(x.n + k)
    ELSE JsString(x.s \o ToString(k))

JsLt(a, b) == ~a.nan /\ ~b.nan /\ a.v < b.v
JsTimes(a, k) == IF a.nan THEN NaN ELSE Num(a.v * k)
JsAdd(a, b) == IF a.nan \/ b.nan THEN NaN ELSE Num(a.v + b.v)

\* String.prototype.trim on the literals the model uses
Trim(s) ==
    CASE s = " A"    -> "A"
      [] s = " Ann " -> "Ann"
      [] s = "90 "   -> "90"
      [] s = "  "    -> ""
      [] OTHER       -> s

\* Date.parse on the literals the model uses, in ms from the model's origin
DateParse(s) ==
    CASE s = "T00:30Z"      -> Num(30 * MS_PER_MINUTE)
      [] s = "T01:00Z"      -> Num(60 * MS_PER_MINUTE)
      [] s = "T02:15Z"      -> Num(135 * MS_PER_MINUTE)
      [] s = "T03:15+01:00" -> Num(135 * MS_PER_MINUTE)
      [] OTHER              -> NaN        \* "soon", "  "

\* new Date(s).toISOString(): the canonical UTC string of the instant
ToISOString(s) ==
    LET ms == DateParse(s).v IN
    CASE ms = 30 * MS_PER_MINUTE  -> "T00:30Z"
      [] ms = 60 * MS_PER_MINUTE  -> "T01:00Z"
      [] ms = 135 * MS_PER_MINUTE -> "T02:15Z"

None == [none |-> TRUE]

(***************************************************************************)
(* Request inputs                                                          *)
(***************************************************************************)
\* Well-formed bodies, and one body for each way a field can be refused.
SessionBodies ==
    [movie : {"A", "B"}, start_at : {"T01:00Z", "T02:15Z"},
     duration_min : {JsNumber(60), JsNumber(90), JsString("60"), JsString("90 ")},
     hall_id : {"HALL-1", "HALL-2"}]
    \cup [movie : {" A", "  "}, start_at : {"T02:15Z"},
          duration_min : {JsNumber(60)}, hall_id : {"HALL-1"}]
    \cup [movie : {"A"}, start_at : {"T00:30Z", "T03:15+01:00", "soon", "  "},
          duration_min : {JsNumber(60)}, hall_id : {"HALL-1"}]
    \cup [movie : {"A"}, start_at : {"T02:15Z"},
          duration_min : {JsNumber(30), JsNumber(300), JsString("abc")},
          hall_id : {"HALL-1"}]
    \cup [movie : {"A"}, start_at : {"T02:15Z"},
          duration_min : {JsNumber(60)}, hall_id : {"HALL-9", "  "}]
BookingBodies ==
    [customer_name : {"Ann", "Bob"}, tickets : {JsNumber(4), JsNumber(8)}]
    \cup [customer_name : {" Ann ", "  "}, tickets : {JsNumber(4)}]
    \cup [customer_name : {"Bob"},
          tickets : {JsNumber(0), JsNumber(9), JsString("4"), JsString("abc")}]

(***************************************************************************)
(* Helpers of server.js                                                    *)
(***************************************************************************)
parseISOToMs(iso) == DateParse(iso)

\* the window of a stored row, whose duration_min is a number
sessionWindowMs(session) ==
    LET startMs == parseISOToMs(session.start_at)
        endMs == JsAdd(startMs,
                   JsTimes(Num(session.duration_min + PAUSE_MINUTES), MS_PER_MINUTE))
    IN [startMs |-> startMs, endMs |-> endMs]

\* ms < Date.now() + 60 * 60 * 1000
tooEarly_pastOnly(ms) == ms.v < now
tooEarly(ms) == ms.v < now + LEAD_MS

ensureSessionPayload(body) ==
    LET ms == parseISOToMs(body.start_at)
        d == ToNumber(body.duration_min)
    IN  /\ Trim(body.movie) # ""
        /\ Trim(body.start_at) # ""
        /\ ~ms.nan
        /\ ~tooEarly(ms)
        /\ ~d.nan /\ d.v > 0
        /\ ~(d.v < MIN_SESSION_DURATION \/ d.v > MAX_SESSION_DURATION)
        /\ Trim(body.hall_id) # ""

hallExists(hallId) == hallId \in DOMAIN halls

sessionExists(sessionId) == sessionId \in DOMAIN sessions

\* the test of one stored window against the candidate's: both are half-open
windowsIntersect_closedEnd(newStartMs, newEndMs, w) ==
    ~JsLt(w.endMs, newStartMs) /\ JsLt(w.startMs, newEndMs)
windowsIntersect(newStartMs, newEndMs, w) ==
    JsLt(newStartMs, w.endMs) /\ JsLt(w.startMs, newEndMs)

\* The rows of the hall that overlap the candidate; duration_min is the raw
\* body value, so duration_min + PAUSE_MINUTES concatenates when it is a string.
overlapRows(hall_id, start_at, duration_min, excludeSessionId) ==
    LET newStartMs == parseISOToMs(start_at)
        newEndMs == JsAdd(newStartMs,
                      JsTimes(ToNumber(JsPlus(duration_min, PAUSE_MINUTES)), MS_PER_MINUTE))
    IN { s \in DOMAIN sessions :
           /\ sessions[s].hall_id = hall_id
           /\ s # excludeSessionId
           /\ windowsIntersect(newStartMs, newEndMs, sessionWindowMs(sessions[s])) }

Min(S) == CHOOSE x \in S : \A y \in S : x <= y

\* [ok, conflict]: the first overlapping row in rowid order
checkSessionOverlap(hall_id, start_at, duration_min, excludeSessionId) ==
    LET rows == overlapRows(hall_id, start_at, duration_min, excludeSessionId)
    IN IF rows = {} THEN [ok |-> TRUE, conflict |-> 0]
       ELSE [ok |-> FALSE, conflict |-> Min(rows)]

getHallCapacityBySession(sessionId) == halls[sessions[sessionId].hall_id].capacity

RECURSIVE SumTickets(_, _)
SumTickets(bk, ids) ==
    IF ids = {} THEN 0
    ELSE LET i == CHOOSE x \in ids : TRUE
         IN bk[i].tickets + SumTickets(bk, ids \ {i})

BookingsOf(bk, sessionId) == { b \in DOMAIN bk : bk[b].session_id = sessionId }

getTotalTicketsInSession_noExclude(sessionId, excludeBookingIds) ==
    SumTickets(bookings, BookingsOf(bookings, sessionId))
getTotalTicketsInSession(sessionId, excludeBookingIds) ==
    SumTickets(bookings, BookingsOf(bookings, sessionId) \ excludeBookingIds)

\* the id of the first row with that name in the session, or None
findBookingByName_miss(sessionId, customer_name) == None
findBookingByName(sessionId, customer_name) ==
    LET rows == { b \in BookingsOf(bookings, sessionId) :
                    bookings[b].customer_name = customer_name }
    IN IF rows = {} THEN None ELSE [none |-> FALSE, id |-> Min(rows)]

\* the capacity condition of the handlers: the tickets booked so far plus the
\* tickets asked for do not fit the hall
exceedsCapacity_currentOnly(total, add, capacity) == total > capacity
exceedsCapacity_atCapacity(total, add, capacity) == total + add >= capacity
exceedsCapacity(total, add, capacity) == total + add > capacity

\* the per-person condition of the handlers
exceedsPersonLimit_missing(t) == FALSE
exceedsPersonLimit(t) == t > MAX_TICKETS_PER_PERSON

ensureBookingPayload(body) ==
    LET t == ToNumber(body.tickets)
    IN  /\ Trim(body.customer_name) # ""
        /\ ~t.nan /\ t.v > 0
        /\ ~(t.v > MAX_TICKETS_PER_PERSON)

(***************************************************************************)
(* The database: the SQL statements the handlers run, and their effect.    *)
(* An UPDATE or DELETE whose WHERE matches no row changes nothing.         *)
(***************************************************************************)
DB == [sessions |-> sessions, bookings |-> bookings,
       nextSid |-> nextSid, nextBid |-> nextBid]

Restrict(table, ids) == [i \in ids |-> table[i]]

\* FOREIGN KEY (session_id) REFERENCES sessions(id) ON DELETE CASCADE
onDeleteCascade_keepRows(bk, sessionId) == bk
onDeleteCascade(bk, sessionId) ==
    Restrict(bk, { b \in DOMAIN bk : bk[b].session_id # sessionId })

\* const id = uuidv4(): an id no showing has had before
newSessionId_reused(db) == Min((1..(MaxSessions + 1)) \ DOMAIN db.sessions)
newSessionId(db) == db.nextSid + 1

\* the effect of one statement on the database
Exec(db, st) ==
    CASE st.k = "insertSession" ->
           \* id = uuidv4(); INSERT INTO sessions
           [db EXCEPT !.sessions = (newSessionId(db) :> st.row) @@ @,
                      !.nextSid = @ + 1]
      [] st.k = "updateSession" ->
           IF st.id \in DOMAIN db.sessions
           THEN [db EXCEPT !.sessions[st.id] = st.row] ELSE db
      [] st.k = "deleteSession" ->
           \* ON DELETE CASCADE removes the bookings of the session
           [db EXCEPT
              !.sessions = Restrict(@, DOMAIN @ \ {st.id}),
              !.bookings = onDeleteCascade(@, st.id)]
      [] st.k = "insertBooking" ->
           [db EXCEPT !.bookings = ((db.nextBid + 1) :> st.row) @@ @,
                      !.nextBid = @ + 1]
      [] st.k = "setTickets" ->
           IF st.id \in DOMAIN db.bookings
           THEN [db EXCEPT !.bookings[st.id].tickets = st.tickets] ELSE db
      [] st.k = "setNameTickets" ->
           IF st.id \in DOMAIN db.bookings
           THEN [db EXCEPT !.bookings[st.id].customer_name = st.customer_name,
                           !.bookings[st.id].tickets = st.tickets]
           ELSE db
      [] st.k = "setSession" ->
           IF st.id \in DOMAIN db.bookings
           THEN [db EXCEPT !.bookings[st.id].session_id = st.session_id] ELSE db
      [] st.k = "deleteBooking" ->
           [db EXCEPT !.bookings = Restrict(@, DOMAIN @ \ {st.id})]

RECURSIVE ExecAll(_, _)
ExecAll(db, stmts) ==
    IF stmts = << >> THEN db ELSE ExecAll(Exec(db, Head(stmts)), Tail(stmts))

\* db.transaction(() => { ... })(): the statements commit together
Transaction_firstOnly(stmts) == << Head(stmts) >>
Transaction(stmts) == stmts

\* what a handler does: the response status and the statements it runs
Result(status, stmts) == [status |-> status, stmts |-> stmts]
Reject(status) == Result(status, << >>)
Rejections == {"badField", "roomMissing", "notFound", "overlap",
               "capacityOnRoomChange", "perPersonCap", "capacityFull", "titleMismatch"}

\* the database after a handler has returned
After(r) == ExecAll(DB, r.stmts)

(***************************************************************************)
(* Session handlers                                                        *)
(***************************************************************************)
NewRow(body) ==
    [movie |-> Trim(body.movie), start_at |-> ToISOString(body.start_at),
     duration_min |-> ToNumber(body.duration_min).v, hall_id |-> body.hall_id]

\* POST /api/sessions
createShowing(body) ==
    IF ~ensureSessionPayload(body) THEN Reject("badField")
    ELSE IF ~hallExists(body.hall_id) THEN Reject("roomMissing")
    ELSE IF ~checkSessionOverlap(body.hall_id, body.start_at, body.duration_min, 0).ok
         THEN Reject("overlap")
    ELSE Result("created", << [k |-> "insertSession", row |-> NewRow(body)] >>)

\* UPDATE sessions SET movie = ?, start_at = ?, duration_min = ?, hall_id = ?
\* WHERE id = ?: the row is changed in place
updateSession_replaceRow(id, body) ==
    << [k |-> "deleteSession", id |-> id],
       [k |-> "insertSession", row |-> NewRow(body)] >>
updateSession(id, body) ==
    << [k |-> "updateSession", id |-> id, row |-> NewRow(body)] >>

\* PUT /api/sessions/:id
updateShowing(id, body) ==
    IF ~sessionExists(id) THEN Reject("notFound")
    ELSE IF ~ensureSessionPayload(body) THEN Reject("badField")
    ELSE IF ~hallExists(body.hall_id) THEN Reject("roomMissing")
    ELSE IF ~checkSessionOverlap(body.hall_id, body.start_at, body.duration_min, id).ok
         THEN Reject("overlap")
    ELSE LET currentSession == sessions[id]
             booked == getTotalTicketsInSession(id, {})
         IN IF /\ currentSession.hall_id # body.hall_id
               /\ booked > halls[body.hall_id].capacity
            THEN Reject("capacityOnRoomChange")
            ELSE Result("ok", updateSession(id, body))

\* GET /api/sessions/:id: a read, which runs no statement
getShowingDetail(id) ==
    IF ~sessionExists(id) THEN Reject("notFound") ELSE Result("ok", << >>)

\* DELETE /api/sessions/:id: the DELETE itself tells whether the row existed
deleteShowing(id) ==
    IF ~sessionExists(id) THEN Reject("notFound")
    ELSE Result("ok", << [k |-> "deleteSession", id |-> id] >>)

(***************************************************************************)
(* Booking handlers                                                        *)
(***************************************************************************)
\* POST /api/sessions/:id/bookings
createOrMergeReservation(sessionId, body) ==
    IF ~sessionExists(sessionId) THEN Reject("notFound")
    ELSE IF ~ensureBookingPayload(body) THEN Reject("badField")
    ELSE
      LET customer_name == Trim(body.customer_name)
          addTickets == ToNumber(body.tickets).v
          capacity == getHallCapacityBySession(sessionId)
          existing == findBookingByName(sessionId, customer_name)
          totalBefore == getTotalTicketsInSession(sessionId, {})
      IN IF ~existing.none THEN
           LET newTotalForPerson == bookings[existing.id].tickets + addTickets IN
           IF exceedsPersonLimit(newTotalForPerson) THEN Reject("perPersonCap")
           ELSE IF exceedsCapacity(totalBefore, addTickets, capacity) THEN Reject("capacityFull")
           ELSE Result("merged", << [k |-> "setTickets", id |-> existing.id,
                                     tickets |-> newTotalForPerson] >>)
         ELSE IF exceedsPersonLimit(addTickets) THEN Reject("perPersonCap")
         ELSE IF exceedsCapacity(totalBefore, addTickets, capacity) THEN Reject("capacityFull")
         ELSE Result("created", << [k |-> "insertBooking",
                                    row |-> [session_id |-> sessionId,
                                             customer_name |-> customer_name,
                                             tickets |-> addTickets]] >>)

\* !booking || booking.session_id !== sessionId
bookingNotInSession_anySession(sessionId, bookingId) ==
    bookingId \notin DOMAIN bookings
bookingNotInSession(sessionId, bookingId) ==
    bookingId \notin DOMAIN bookings \/ bookings[bookingId].session_id # sessionId

\* PUT /api/sessions/:sid/bookings/:bid
editReservation(sessionId, bookingId, body) ==
    IF ~sessionExists(sessionId) THEN Reject("notFound")
    ELSE IF bookingNotInSession(sessionId, bookingId) THEN Reject("notFound")
    ELSE IF ~ensureBookingPayload(body) THEN Reject("badField")
    ELSE
      LET customer_name == Trim(body.customer_name)
          newTickets == ToNumber(body.tickets).v
          capacity == getHallCapacityBySession(sessionId)
          excludeSelfTotal == getTotalTicketsInSession(sessionId, {bookingId})
          other == findBookingByName(sessionId, customer_name)
      IN IF ~other.none /\ other.id # bookingId THEN
           LET mergedTickets == bookings[other.id].tickets + newTickets
               totalExcludingBoth ==
                   getTotalTicketsInSession(sessionId, {bookingId, other.id})
           IN IF exceedsPersonLimit(mergedTickets) THEN Reject("perPersonCap")
              ELSE IF exceedsCapacity(totalExcludingBoth, mergedTickets, capacity)
                   THEN Reject("capacityFull")
              ELSE Result("merged", Transaction(
                     << [k |-> "setTickets", id |-> other.id, tickets |-> mergedTickets],
                        [k |-> "deleteBooking", id |-> bookingId] >>))
         ELSE IF exceedsPersonLimit(newTickets) THEN Reject("perPersonCap")
         ELSE IF exceedsCapacity(excludeSelfTotal, newTickets, capacity) THEN Reject("capacityFull")
         ELSE Result("ok", << [k |-> "setNameTickets", id |-> bookingId,
                               customer_name |-> customer_name,
                               tickets |-> newTickets] >>)

\* DELETE /api/sessions/:sid/bookings/:bid: DELETE ... WHERE id = ? AND
\* session_id = ?, and 404 when no row was deleted
deleteReservation_anySession(sessionId, bookingId) ==
    IF bookingId \in DOMAIN bookings /\ bookings[bookingId].session_id = sessionId
    THEN Result("ok", << [k |-> "deleteBooking", id |-> bookingId] >>)
    ELSE Result("notFound", << [k |-> "deleteBooking", id |-> bookingId] >>)
deleteReservation(sessionId, bookingId) ==
    IF bookingId \in DOMAIN bookings /\ bookings[bookingId].session_id = sessionId
    THEN Result("ok", << [k |-> "deleteBooking", id |-> bookingId] >>)
    ELSE Reject("notFound")

\* POST /api/bookings/:bid/move, the branch taken when the claimant already
\* has a reservation (existingId) in the target showing
transferMerge_writeFirst(bookingId, toSessionId, existingId) ==
    LET booking == bookings[bookingId]
        capacity == getHallCapacityBySession(toSessionId)
        mergedTickets == bookings[existingId].tickets + booking.tickets
        totalExcludingExisting == getTotalTicketsInSession(toSessionId, {existingId})
        update == [k |-> "setTickets", id |-> existingId, tickets |-> mergedTickets]
    IN IF exceedsPersonLimit(mergedTickets) THEN Reject("perPersonCap")
       ELSE IF exceedsCapacity(totalExcludingExisting, mergedTickets, capacity)
            THEN Result("capacityFull", << update >>)
       ELSE Result("merged", << update, [k |-> "deleteBooking", id |-> bookingId] >>)
transferMerge(bookingId, toSessionId, existingId) ==
    LET booking == bookings[bookingId]
        capacity == getHallCapacityBySession(toSessionId)
        mergedTickets == bookings[existingId].tickets + booking.tickets
        totalExcludingExisting == getTotalTicketsInSession(toSessionId, {existingId})
    IN IF exceedsPersonLimit(mergedTickets) THEN Reject("perPersonCap")
       ELSE IF exceedsCapacity(totalExcludingExisting, mergedTickets, capacity)
            THEN Reject("capacityFull")
       ELSE Result("merged", Transaction(
              << [k |-> "setTickets", id |-> existingId, tickets |-> mergedTickets],
                 [k |-> "deleteBooking", id |-> bookingId] >>))

\* UPDATE bookings SET session_id = ? WHERE id = ?: the same row moves
reassignSession_copy(bookingId, toSessionId) ==
    << [k |-> "deleteBooking", id |-> bookingId],
       [k |-> "insertBooking",
        row |-> [bookings[bookingId] EXCEPT !.session_id = toSessionId]] >>
reassignSession(bookingId, toSessionId) ==
    << [k |-> "setSession", id |-> bookingId, session_id |-> toSessionId] >>

\* fromSession.movie !== toSession.movie
differentMovie_ignored(fromSession, toSession) == FALSE
differentMovie(fromSession, toSession) == fromSession.movie # toSession.movie

\* the checks of a move that meets no reservation of the same claimant:
\* totalTo + booking.tickets > capacity, then booking.tickets > limit
moveAlone(totalTo, tickets, capacity) ==
    IF exceedsCapacity(totalTo, tickets, capacity) THEN "capacityFull"
    ELSE IF exceedsPersonLimit(tickets) THEN "perPersonCap"
    ELSE "moved"

\* POST /api/bookings/:bid/move; toSessionId 0 stands for a missing or blank one
transferReservation(bookingId, toSessionId) ==
    IF toSessionId = 0 THEN Reject("badField")
    ELSE IF bookingId \notin DOMAIN bookings THEN Reject("notFound")
    ELSE IF toSessionId \notin DOMAIN sessions THEN Reject("notFound")
    ELSE
      LET booking == bookings[bookingId]
          fromSession == sessions[booking.session_id]
          toSession == sessions[toSessionId]
          capacity == getHallCapacityBySession(toSessionId)
          existing == findBookingByName(toSessionId, booking.customer_name)
          totalTo == getTotalTicketsInSession(toSessionId, {})
      IN IF differentMovie(fromSession, toSession) THEN Reject("titleMismatch")
         ELSE IF ~existing.none THEN transferMerge(bookingId, toSessionId, existing.id)
         ELSE IF moveAlone(totalTo, booking.tickets, capacity) # "moved"
              THEN Reject(moveAlone(totalTo, booking.tickets, capacity))
         ELSE Result("moved", reassignSession(bookingId, toSessionId))

(***************************************************************************)
(* The server: every handler is a synchronous function, so a request is    *)
(* handled from its first read to its last write in one step.              *)
(***************************************************************************)
Init ==
    /\ sessions = << >>
    /\ bookings = << >>
    /\ nextSid = 0
    /\ nextBid = 0
    /\ now = 0
    /\ pending = {}
    /\ running = {}

\* a request handled: the tables after the handler's statements
Respond(r) ==
    LET db == After(r) IN
    /\ db.nextSid <= MaxSessions
    /\ db.nextBid <= MaxBookings
    /\ sessions' = db.sessions
    /\ bookings' = db.bookings
    /\ nextSid' = db.nextSid
    /\ nextBid' = db.nextBid

CreateShowing ==
    /\ \E body \in SessionBodies : Respond(createShowing(body))
    /\ UNCHANGED <<now, pending, running>>

UpdateShowing ==
    /\ \E id \in SessionIds, body \in SessionBodies :
          Respond(updateShowing(id, body))
    /\ UNCHANGED <<now, pending, running>>

GetShowingDetail ==
    /\ \E id \in SessionIds : Respond(getShowingDetail(id))
    /\ UNCHANGED <<now, pending, running>>

DeleteShowing ==
    /\ \E id \in SessionIds : Respond(deleteShowing(id))
    /\ UNCHANGED <<now, pending, running>>

CreateOrMergeReservation ==
    /\ \E id \in SessionIds, body \in BookingBodies :
          Respond(createOrMergeReservation(id, body))
    /\ UNCHANGED <<now, pending, running>>

EditReservation ==
    /\ \E sid \in SessionIds, bid \in BookingIds, body \in BookingBodies :
          Respond(editReservation(sid, bid, body))
    /\ UNCHANGED <<now, pending, running>>

DeleteReservation ==
    /\ \E sid \in SessionIds, bid \in BookingIds :
          Respond(deleteReservation(sid, bid))
    /\ UNCHANGED <<now, pending, running>>

TransferReservation ==
    /\ \E bid \in BookingIds, to \in SessionIds \cup {0} :
          Respond(transferReservation(bid, to))
    /\ UNCHANGED <<now, pending, running>>

\* time passes
Tick ==
    /\ now < MaxTicks * 30 * MS_PER_MINUTE
    /\ now' = now + 30 * MS_PER_MINUTE
    /\ UNCHANGED <<sessions, bookings, nextSid, nextBid, pending, running>>

Next ==
    \/ GetShowingDetail
    \/ CreateShowing
    \/ UpdateShowing
    \/ DeleteShowing
    \/ CreateOrMergeReservation
    \/ EditReservation
    \/ DeleteReservation
    \/ TransferReservation
    \/ Tick

Spec == Init /\ [][Next]_vars

(***************************************************************************)
(* The server under concurrent requests. Requests are received while       *)
(* others are being handled (express.json reads bodies asynchronously),    *)
(* and Node's event loop calls one handler at a time: a handler has no     *)
(* await or callback, so it returns before the next one is called. The     *)
(* handler's reads and checks (Begin) and its writes (Finish) are separate *)
(* steps here; the event loop is what keeps other handlers out between     *)
(* them.                                                                   *)
(***************************************************************************)
MaxPending == 2

ConcSessionBodies ==
    [movie : {"A"}, start_at : {"T01:00Z", "T02:15Z"},
     duration_min : {JsNumber(60), JsString("90 ")},
     hall_id : {"HALL-2"}]
ConcBookingBodies ==
    [customer_name : {"Ann", "Bob"}, tickets : {JsNumber(4)}]
Requests ==
    [op : {"createShowing"}, id : {0}, body : ConcSessionBodies]
    \cup [op : {"updateShowing"}, id : SessionIds, body : ConcSessionBodies]
    \cup [op : {"createOrMergeReservation"}, id : SessionIds, body : ConcBookingBodies]

Handle(req) ==
    CASE req.op = "createShowing" -> createShowing(req.body)
      [] req.op = "updateShowing" -> updateShowing(req.id, req.body)
      [] req.op = "createOrMergeReservation" ->
           createOrMergeReservation(req.id, req.body)

\* no handler is in progress
EventLoopIdle_interleaved == TRUE
EventLoopIdle == running = {}

Receive ==
    /\ Cardinality(pending) < MaxPending
    /\ \E req \in Requests \ pending : pending' = pending \cup {req}
    /\ UNCHANGED <<sessions, bookings, nextSid, nextBid, now, running>>

\* the event loop calls the handler of a received request: it reads the
\* tables and decides
Begin ==
    /\ EventLoopIdle
    /\ \E req \in pending :
          /\ pending' = pending \ {req}
          /\ running' = running \cup {[req |-> req, result |-> Handle(req)]}
    /\ UNCHANGED <<sessions, bookings, nextSid, nextBid, now>>

\* the handler runs its statements, answers and returns
Finish ==
    /\ \E f \in running :
          /\ running' = running \ {f}
          /\ Respond(f.result)
    /\ UNCHANGED <<now, pending>>

NextConc ==
    \/ Receive
    \/ Begin
    \/ Finish

SpecConc == Init /\ [][NextConc]_vars

(***************************************************************************)
(* The reservation desk: the reservation handlers, over showings scheduled *)
(* with plain bodies.                                                      *)
(***************************************************************************)
PlainSessionBodies ==
    [movie : {"A"}, start_at : {"T01:00Z", "T02:15Z"},
     duration_min : {JsNumber(60)}, hall_id : {"HALL-1", "HALL-2"}]

SchedulePlain ==
    /\ \E body \in PlainSessionBodies : Respond(createShowing(body))
    /\ UNCHANGED <<now, pending, running>>

\* requests of 2, 4 or 8 tickets
TicketCounts == {2, 4, 8}
CreateBody(name, n) == [customer_name |-> name, tickets |-> JsNumber(n)]
DeskBookingBodies == { CreateBody(name, n) : name \in {"Ann", "Bob"}, n \in TicketCounts }

ReserveAtDesk ==
    /\ \E id \in SessionIds, body \in DeskBookingBodies :
          Respond(createOrMergeReservation(id, body))
    /\ UNCHANGED <<now, pending, running>>

EditAtDesk ==
    /\ \E sid \in SessionIds, bid \in BookingIds, body \in DeskBookingBodies :
          Respond(editReservation(sid, bid, body))
    /\ UNCHANGED <<now, pending, running>>

NextDesk ==
    \/ SchedulePlain
    \/ DeleteShowing
    \/ ReserveAtDesk
    \/ EditAtDesk
    \/ DeleteReservation
    \/ TransferReservation

SpecDesk == Init /\ [][NextDesk]_vars

(***************************************************************************)
(* The event loop: requests wait in arrival order, and the loop calls the  *)
(* handler of the first one when no handler is in progress. Here pending   *)
(* is the queue of received requests.                                      *)
(***************************************************************************)
LiveSessionBodies ==
    [movie : {"A"}, start_at : {"T01:00Z", "T02:15Z"},
     duration_min : {JsNumber(60)}, hall_id : {"HALL-1"}]

\* one request shape for the seven operations: id is the showing addressed
\* (the destination, for a transfer), bid the reservation
LiveRequests ==
    [op : {"createShowing"}, id : {0}, bid : {0}, body : LiveSessionBodies]
    \cup [op : {"updateShowing"}, id : {1}, bid : {0}, body : LiveSessionBodies]
    \cup [op : {"deleteShowing"}, id : {1}, bid : {0}, body : {None}]
    \cup [op : {"createOrMergeReservation"}, id : SessionIds, bid : {0},
          body : ConcBookingBodies]
    \cup [op : {"editReservation"}, id : {1}, bid : {1},
          body : {[customer_name |-> "Bob", tickets |-> JsNumber(8)]}]
    \cup [op : {"deleteReservation"}, id : {1}, bid : {1}, body : {None}]
    \cup [op : {"transferReservation"}, id : SessionIds, bid : {1}, body : {None}]

HandleAny(req) ==
    CASE req.op = "createShowing" -> createShowing(req.body)
      [] req.op = "updateShowing" -> updateShowing(req.id, req.body)
      [] req.op = "deleteShowing" -> deleteShowing(req.id)
      [] req.op = "createOrMergeReservation" ->
           createOrMergeReservation(req.id, req.body)
      [] req.op = "editReservation" -> editReservation(req.id, req.bid, req.body)
      [] req.op = "deleteReservation" -> deleteReservation(req.id, req.bid)
      [] req.op = "transferReservation" -> transferReservation(req.bid, req.id)

Queued == { pending[i] : i \in DOMAIN pending }
InProgress == { f.req : f \in running }
\* the requests received and not yet answered that may insert a row
Inserting(op) == Cardinality({ req \in Queued \cup InProgress : req.op = op })

InitLoop ==
    /\ sessions = << >>
    /\ bookings = << >>
    /\ nextSid = 0
    /\ nextBid = 0
    /\ now = 0
    /\ pending = << >>
    /\ running = {}

\* a request arrives; rows are created only up to the bounds
Accept ==
    /\ Len(pending) < MaxPending
    /\ \E req \in LiveRequests \ (Queued \cup InProgress) :
          /\ req.op = "createShowing" =>
                nextSid + Inserting("createShowing") < MaxSessions
          /\ req.op = "createOrMergeReservation" =>
                nextBid + Inserting("createOrMergeReservation") < MaxBookings
          /\ pending' = Append(pending, req)
    /\ UNCHANGED <<sessions, bookings, nextSid, nextBid, now, running>>

\* the request the loop takes next, and the queue it leaves
dequeue_newestFirst(queue) ==
    [req |-> queue[Len(queue)], rest |-> SubSeq(queue, 1, Len(queue) - 1)]
dequeue(queue) == [req |-> Head(queue), rest |-> Tail(queue)]

\* the loop calls the handler of the next request
Dispatch ==
    /\ EventLoopIdle
    /\ pending # << >>
    /\ pending' = dequeue(pending).rest
    /\ running' = {[req |-> dequeue(pending).req,
                    result |-> HandleAny(dequeue(pending).req)]}
    /\ UNCHANGED <<sessions, bookings, nextSid, nextBid, now>>

NextLoop ==
    \/ Accept
    \/ Dispatch
    \/ Finish

\* the loop keeps running: it takes the next request when it is idle, and
\* a handler that was called runs to its end
SpecLoop ==
    InitLoop /\ [][NextLoop]_vars /\ WF_vars(Dispatch) /\ WF_vars(Finish)

(***************************************************************************)
(* Properties                                                              *)
(***************************************************************************)
Total(s) == SumTickets(bookings, BookingsOf(bookings, s))
Capacity(s) == halls[sessions[s].hall_id].capacity
Names == {"Ann", "Bob"}
Held(bk, s, name) ==
    SumTickets(bk, { b \in BookingsOf(bk, s) : bk[b].customer_name = name })

\* C1: in every reachable state the tickets of a showing's reservations sum
\* to at most the capacity of the room the showing references.
CapacityConservation ==
    \A s \in DOMAIN sessions : Total(s) <= Capacity(s)

\* a showing booked by two claimants up to its capacity, where one more
\* ticket request is refused for capacity
CapacityWitness ==
    \E s \in DOMAIN sessions :
       /\ Total(s) = Capacity(s)
       /\ Cardinality(BookingsOf(bookings, s)) = 2
       /\ createOrMergeReservation(s,
             [customer_name |-> "Bob", tickets |-> JsNumber(4)]).status = "capacityFull"

\* C2: in every reachable state a claimant holds at most
\* MAX_TICKETS_PER_PERSON tickets in one showing.
PerPersonConservation ==
    \A s \in DOMAIN sessions : \A name \in Names :
       Held(bookings, s, name) <= MAX_TICKETS_PER_PERSON

\* a claimant who reached the limit by a merge and is refused more
PerPersonWitness ==
    \E s \in DOMAIN sessions :
       /\ Held(bookings, s, "Ann") = MAX_TICKETS_PER_PERSON
       /\ createOrMergeReservation(s,
             [customer_name |-> "Ann", tickets |-> JsNumber(4)]).status = "perPersonCap"

\* the occupied window of a stored showing, [start, start + duration + M)
WindowStart(s) == sessionWindowMs(sessions[s]).startMs.v
WindowEnd(s) == sessionWindowMs(sessions[s]).endMs.v

\* C3: in every reachable state the occupied windows of two distinct
\* showings of one room do not overlap.
NoRoomOverlap ==
    \A a \in DOMAIN sessions : \A b \in DOMAIN sessions :
       (a # b /\ sessions[a].hall_id = sessions[b].hall_id)
          => ~(WindowStart(a) < WindowEnd(b) /\ WindowStart(b) < WindowEnd(a))

\* C4: in every reachable state a showing has at most one reservation for
\* a claimant name.
ClaimantUniqueness ==
    \A a \in DOMAIN bookings : \A b \in DOMAIN bookings :
       (a # b /\ bookings[a].session_id = bookings[b].session_id)
          => bookings[a].customer_name # bookings[b].customer_name

\* two reservations of one showing, where renaming one to the other's name
\* merges them
UniquenessWitness ==
    \E a \in DOMAIN bookings : \E b \in DOMAIN bookings :
       /\ a # b
       /\ bookings[a].session_id = bookings[b].session_id
       /\ editReservation(bookings[a].session_id, a,
             [customer_name |-> bookings[b].customer_name,
              tickets |-> JsNumber(4)]).status = "merged"

HeldAnywhere(bk, name) ==
    SumTickets(bk, { b \in DOMAIN bk : bk[b].customer_name = name })
Successes == {"created", "ok", "merged", "moved"}
TransferTargets == SessionIds \cup {0}

\* C5: a successful transfer of reservation r (claimant c, t tickets) to a
\* showing of the same title, r's own showing included, leaves the tickets c
\* holds over all showings unchanged, and c then holds, in one reservation of
\* the destination, what c held there apart from r plus t.
TransferConservesTickets ==
    \A bid \in DOMAIN bookings : \A to \in DOMAIN sessions :
       LET r == transferReservation(bid, to)
           c == bookings[bid].customer_name
           t == bookings[bid].tickets
           after == After(r).bookings
           before == Restrict(bookings, DOMAIN bookings \ {bid})
       IN r.status \in Successes =>
            /\ HeldAnywhere(after, c) = HeldAnywhere(bookings, c)
            /\ Held(after, to, c) = Held(before, to, c) + t
            /\ Cardinality({ b \in BookingsOf(after, to) :
                               after[b].customer_name = c }) = 1

\* C6: a rejected transfer leaves the tables as they were: the source
\* reservation is unchanged and no reservation of the destination is created,
\* modified or deleted.
TransferAtomicOnFailure ==
    \A bid \in BookingIds : \A to \in TransferTargets :
       LET r == transferReservation(bid, to)
       IN r.status \in Rejections => After(r) = DB

\* a transfer into another showing of the same title, where the claimant
\* already holds tickets, is refused for capacity
TransferRejectedWitness ==
    \E bid \in DOMAIN bookings : \E to \in DOMAIN sessions :
       /\ ~findBookingByName(to, bookings[bid].customer_name).none
       /\ bookings[bid].session_id # to
       /\ transferReservation(bid, to).status = "capacityFull"

\* C9: in the merge paths of transfer and edit the update of the absorbing
\* reservation and the deletion of the other one commit together: after the
\* handler the absorbing reservation holds the merged count and the other
\* reservation is gone.
NoPartialMerge ==
    /\ \A bid \in DOMAIN bookings : \A to \in DOMAIN sessions :
          LET r == transferReservation(bid, to)
              o == findBookingByName(to, bookings[bid].customer_name)
              after == After(r).bookings
          IN (r.status = "merged" /\ o.id # bid) =>
               /\ bid \notin DOMAIN after
               /\ o.id \in DOMAIN after
               /\ after[o.id].tickets = bookings[o.id].tickets + bookings[bid].tickets
    /\ \A bid \in DOMAIN bookings : \A body \in BookingBodies :
          LET sid == bookings[bid].session_id
              r == editReservation(sid, bid, body)
              o == findBookingByName(sid, Trim(body.customer_name))
              after == After(r).bookings
          IN r.status = "merged" =>
               /\ bid \notin DOMAIN after
               /\ o.id \in DOMAIN after
               /\ after[o.id].tickets =
                     bookings[o.id].tickets + ToNumber(body.tickets).v

\* a state where a transfer merges the two reservations one claimant holds
\* in two showings, in either direction
MergeWitness ==
    \E a \in DOMAIN bookings : \E b \in DOMAIN bookings :
       /\ bookings[a].session_id # bookings[b].session_id
       /\ transferReservation(a, bookings[b].session_id).status = "merged"
       /\ transferReservation(b, bookings[a].session_id).status = "merged"

\* C10: an operation that answers with a rejection leaves the showings and
\* the reservations, and all their fields, as they were before the call.
RejectionsNeverMutate ==
    /\ \A body \in SessionBodies :
          createShowing(body).status \in Rejections => After(createShowing(body)) = DB
    /\ \A id \in SessionIds : \A body \in SessionBodies :
          updateShowing(id, body).status \in Rejections
             => After(updateShowing(id, body)) = DB
    /\ \A id \in SessionIds :
          deleteShowing(id).status \in Rejections => After(deleteShowing(id)) = DB
    /\ \A id \in SessionIds : \A body \in BookingBodies :
          createOrMergeReservation(id, body).status \in Rejections
             => After(createOrMergeReservation(id, body)) = DB
    /\ \A sid \in SessionIds : \A bid \in BookingIds : \A body \in BookingBodies :
          editReservation(sid, bid, body).status \in Rejections
             => After(editReservation(sid, bid, body)) = DB
    /\ \A sid \in SessionIds : \A bid \in BookingIds :
          deleteReservation(sid, bid).status \in Rejections
             => After(deleteReservation(sid, bid)) = DB
    /\ \A bid \in BookingIds : \A to \in TransferTargets :
          transferReservation(bid, to).status \in Rejections
             => After(transferReservation(bid, to)) = DB

\* a state where requests are refused for an overlap, for the capacity of the
\* new room, for the capacity of the showing, for a title mismatch and for a
\* reservation addressed through another showing
RejectionWitness ==
    /\ \E body \in SessionBodies : createShowing(body).status = "overlap"
    /\ \E id \in SessionIds : \E body \in SessionBodies :
          updateShowing(id, body).status = "capacityOnRoomChange"
    /\ \E sid \in SessionIds : \E bid \in BookingIds : \E body \in BookingBodies :
          editReservation(sid, bid, body).status = "capacityFull"
    /\ \E bid \in BookingIds : \E to \in TransferTargets :
          transferReservation(bid, to).status = "titleMismatch"
    /\ \E sid \in DOMAIN sessions : \E bid \in DOMAIN bookings :
          deleteReservation(sid, bid).status = "notFound"

\* the tickets a handler in progress is about to add to showing s
Adding(f, s) ==
    IF f.req.op = "createOrMergeReservation" /\ f.req.id = s
          /\ f.result.status \in Successes
    THEN ToNumber(f.req.body.tickets).v ELSE 0
RECURSIVE SumAdding(_, _)
SumAdding(fs, s) ==
    IF fs = {} THEN 0
    ELSE LET f == CHOOSE x \in fs : TRUE IN Adding(f, s) + SumAdding(fs \ {f}, s)

\* C7: concurrent createOrMergeReservation calls never pass the capacity
\* check together beyond the capacity: the tickets stored for a showing plus
\* those that handlers in progress have been allowed to add never exceed the
\* capacity of its room.
ConcurrentCreatesWithinCapacity ==
    \A s \in DOMAIN sessions : Total(s) + SumAdding(running, s) <= Capacity(s)

\* one create has passed the capacity check and has not written yet, while a
\* second one for the same showing is waiting that would fit without the
\* first and does not fit with it
ConcurrentCreatesWitness ==
    \E f \in running : \E q \in pending :
       /\ f.req.op = "createOrMergeReservation"
       /\ q.op = "createOrMergeReservation"
       /\ q.id = f.req.id
       /\ q.id \in DOMAIN sessions
       /\ Adding(f, q.id) > 0
       /\ Total(q.id) + ToNumber(q.body.tickets).v <= Capacity(q.id)
       /\ Total(q.id) + Adding(f, q.id) + ToNumber(q.body.tickets).v > Capacity(q.id)

\* C8: concurrent createShowing and updateShowing calls for one room never
\* both succeed with overlapping windows: whenever no handler is in
\* progress, the showings of a room are pairwise disjoint.
ConcurrentPlacementsDisjoint ==
    running = {} =>
       \A a \in DOMAIN sessions : \A b \in DOMAIN sessions :
          (a # b /\ sessions[a].hall_id = sessions[b].hall_id)
             => (WindowEnd(a) <= WindowStart(b) \/ WindowEnd(b) <= WindowStart(a))


\* the occupied window of the showing a body asks for, with the duration the
\* showing is stored with
CandidateStart(body) == parseISOToMs(body.start_at).v
CandidateEnd(body) ==
    CandidateStart(body)
      + (ToNumber(body.duration_min).v + PAUSE_MINUTES) * MS_PER_MINUTE
\* the stored showings of the body's room, other than self, whose window
\* overlaps the candidate's
Overlapping(body, self) ==
    { s \in DOMAIN sessions \ {self} :
        /\ sessions[s].hall_id = body.hall_id
        /\ CandidateStart(body) < WindowEnd(s)
        /\ WindowStart(s) < CandidateEnd(body) }
WellFormed(body) == ensureSessionPayload(body) /\ hallExists(body.hall_id)

\* C11: a well-formed createShowing is rejected for overlap exactly when a
\* stored showing of the room has a window [s1, e1) with newStart < e1 and
\* s1 < newEnd, each end being start + duration + PAUSE_MINUTES, and the
\* conflict reported is such a showing.
OverlapDecisionAtCreation ==
    \A body \in SessionBodies :
       WellFormed(body) =>
          /\ createShowing(body).status = "overlap" <=> Overlapping(body, 0) # {}
          /\ createShowing(body).status = "overlap" =>
                checkSessionOverlap(body.hall_id, body.start_at,
                                    body.duration_min, 0).conflict
                   \in Overlapping(body, 0)

\* the overlap test of the handlers with stored showing a as the candidate:
\* does it find stored showing b
Flags(a, b) ==
    b \in overlapRows(sessions[a].hall_id, sessions[a].start_at,
                      JsNumber(sessions[a].duration_min), a)

TotalIn(bk, s) == SumTickets(bk, BookingsOf(bk, s))

\* the tickets this step adds to reservation r, a new one included
Grown(r) ==
    bookings'[r].tickets - (IF r \in DOMAIN bookings THEN bookings[r].tickets ELSE 0)

\* this step is a successful createOrMergeReservation(s, name, a)
FirstCreate(s, name, a) ==
    LET r == createOrMergeReservation(s, CreateBody(name, a))
    IN /\ UNCHANGED <<sessions, nextSid>>
       /\ r.status \in Successes
       /\ bookings' = After(r).bookings
       /\ nextBid' = After(r).nextBid

\* the aggregate state createOrMergeReservation(s, name, n) leaves, as a
\* one-element set: the showing's total and every claimant's tickets
Aggregate(s, name, n) ==
    { [total |-> TotalIn(bk, s), held |-> [c \in Names |-> Held(bk, s, c)]] :
        bk \in { After(createOrMergeReservation(s, CreateBody(name, n))).bookings } }
Succeeds(s, name, n) ==
    createOrMergeReservation(s, CreateBody(name, n)).status \in Successes

\* C13: after a successful createOrMergeReservation(name, a), a second call
\* for b tickets succeeds exactly when a + b <= MAX_TICKETS_PER_PERSON and
\* the total before the first call plus a + b fits the capacity, and then
\* the aggregate state is that of the single call for a + b tickets.
MergeEquivalence ==
    [][(bookings' # bookings /\ sessions' = sessions) =>
         \A r \in DOMAIN bookings' : \A s \in DOMAIN sessions :
         \A name \in Names : \A a \in TicketCounts :
               (/\ Grown(r) = a
                /\ bookings'[r].session_id = s
                /\ bookings'[r].customer_name = name
                /\ FirstCreate(s, name, a)) =>
                  \A b \in TicketCounts :
                     IF Succeeds(s, name, b)'
                     THEN /\ a + b <= MAX_TICKETS_PER_PERSON
                          /\ Total(s) + a + b <= Capacity(s)
                          /\ Succeeds(s, name, a + b)
                          /\ Aggregate(s, name, b)' = Aggregate(s, name, a + b)
                     ELSE ~(/\ a + b <= MAX_TICKETS_PER_PERSON
                            /\ Total(s) + a + b <= Capacity(s))]_vars

\* C13, amended: the second call succeeds exactly when the tickets the
\* claimant held before the first call plus a + b are at most
\* MAX_TICKETS_PER_PERSON and the total before the first call plus a + b
\* fits the capacity, and then the aggregate state is that of the single
\* call for a + b tickets.
MergeEquivalenceWithHeld ==
    [][(bookings' # bookings /\ sessions' = sessions) =>
         \A r \in DOMAIN bookings' : \A s \in DOMAIN sessions :
         \A name \in Names : \A a \in TicketCounts :
               (/\ Grown(r) = a
                /\ bookings'[r].session_id = s
                /\ bookings'[r].customer_name = name
                /\ FirstCreate(s, name, a)) =>
                  \A b \in TicketCounts :
                     IF Succeeds(s, name, b)'
                     THEN /\ Held(bookings, s, name) + a + b <= MAX_TICKETS_PER_PERSON
                          /\ Total(s) + a + b <= Capacity(s)
                          /\ Succeeds(s, name, a + b)
                          /\ Aggregate(s, name, b)' = Aggregate(s, name, a + b)
                     ELSE ~(/\ Held(bookings, s, name) + a + b <= MAX_TICKETS_PER_PERSON
                            /\ Total(s) + a + b <= Capacity(s))]_vars

\* a claimant holding the tickets of a first request, to whom a second
\* request is merged
MergeEquivalenceWitness ==
    \E s \in DOMAIN sessions :
       /\ Held(bookings, s, "Bob") = 4
       /\ Cardinality(BookingsOf(bookings, s)) = 1
       /\ createOrMergeReservation(s, CreateBody("Bob", 4)).status = "merged"

\* C14: a transfer succeeds only if the destination showing exists and has
\* the title of the reservation's showing; to an existing showing of another
\* title it is rejected with titleMismatch, whatever the capacity and the
\* claimant's tickets there.
TransferEligibility ==
    \A bid \in DOMAIN bookings : \A to \in TransferTargets :
       LET r == transferReservation(bid, to)
           from == bookings[bid].session_id
       IN /\ r.status \in Successes =>
               /\ to \in DOMAIN sessions
               /\ sessions[to].movie = sessions[from].movie
          /\ (to \in DOMAIN sessions /\ sessions[to].movie # sessions[from].movie)
               => r.status = "titleMismatch"

\* a reservation too large for a showing of another title: the transfer is
\* refused for the title, not for the capacity
TransferEligibilityWitness ==
    \E bid \in DOMAIN bookings : \E to \in DOMAIN sessions :
       /\ sessions[to].movie # sessions[bookings[bid].session_id].movie
       /\ Total(to) + bookings[bid].tickets > Capacity(to)
       /\ transferReservation(bid, to).status = "titleMismatch"

\* C15: an updateShowing that moves a showing to a room whose capacity is
\* below the showing's ticket total is rejected and leaves the showing in
\* its room; when the new room can hold the total and no showing of the new
\* room overlaps the requested window, the room change is accepted.
RoomChangeCapacity ==
    \A id \in DOMAIN sessions : \A body \in SessionBodies :
       (WellFormed(body) /\ body.hall_id # sessions[id].hall_id) =>
          LET r == updateShowing(id, body)
          IN IF Total(id) > halls[body.hall_id].capacity
             THEN /\ r.status \in Rejections
                  /\ After(r).sessions[id].hall_id = sessions[id].hall_id
             ELSE Overlapping(body, id) = {} =>
                     /\ r.status = "ok"
                     /\ After(r).sessions[id].hall_id = body.hall_id

\* C16: deleteShowing of an existing showing succeeds and removes exactly
\* the showing and its reservations; in every reachable state every
\* reservation references an existing showing and every showing an existing
\* room.
CascadeDeleteNoOrphans ==
    /\ \A b \in DOMAIN bookings : bookings[b].session_id \in DOMAIN sessions
    /\ \A s \in DOMAIN sessions : sessions[s].hall_id \in DOMAIN halls
    /\ \A id \in DOMAIN sessions :
          LET r == deleteShowing(id)
              keep == { b \in DOMAIN bookings : bookings[b].session_id # id }
          IN /\ r.status = "ok"
             /\ After(r).sessions = Restrict(sessions, DOMAIN sessions \ {id})
             /\ After(r).bookings = Restrict(bookings, keep)
             /\ \A b \in DOMAIN After(r).bookings :
                   After(r).bookings[b].session_id \in DOMAIN After(r).sessions

\* two showings with a reservation each: deleting one removes its
\* reservation and keeps the other showing's
CascadeDeleteWitness ==
    \E id \in DOMAIN sessions : \E a \in DOMAIN bookings : \E b \in DOMAIN bookings :
       /\ bookings[a].session_id = id
       /\ bookings[b].session_id # id
       /\ a \notin DOMAIN After(deleteShowing(id)).bookings
       /\ b \in DOMAIN After(deleteShowing(id)).bookings

\* C17: a well-formed createOrMergeReservation of n tickets for a claimant
\* holding e tickets in the showing is rejected for the per-person limit when
\* e + n > MAX_TICKETS_PER_PERSON, whatever the capacity; otherwise it is
\* rejected for capacity when total + n > capacity; otherwise, total + n
\* equal to the capacity included, it succeeds.
AdmissionOutcomes ==
    \A s \in DOMAIN sessions : \A body \in BookingBodies :
       ensureBookingPayload(body) =>
          LET n == ToNumber(body.tickets).v
              e == Held(bookings, s, Trim(body.customer_name))
              status == createOrMergeReservation(s, body).status
          IN IF e > 0 /\ e + n > MAX_TICKETS_PER_PERSON THEN status = "perPersonCap"
             ELSE IF Total(s) + n > Capacity(s) THEN status = "capacityFull"
             ELSE status \in Successes

\* a showing where one request fills the room exactly and succeeds, one is
\* refused for capacity, and one that exceeds both limits is refused for the
\* per-person limit
AdmissionWitness ==
    \E s \in DOMAIN sessions :
       /\ Total(s) + 4 = Capacity(s)
       /\ createOrMergeReservation(s, CreateBody("Bob", 4)).status = "created"
       /\ createOrMergeReservation(s, CreateBody("Bob", 8)).status = "capacityFull"
       /\ Held(bookings, s, "Ann") + 8 > MAX_TICKETS_PER_PERSON
       /\ Total(s) + 8 > Capacity(s)
       /\ createOrMergeReservation(s, CreateBody("Ann", 8)).status = "perPersonCap"

\* the body asks for the room, start and duration the showing already has
KeepsPlacement(id, body) ==
    /\ body.hall_id = sessions[id].hall_id
    /\ ToISOString(body.start_at) = sessions[id].start_at
    /\ ToNumber(body.duration_min).v = sessions[id].duration_min

\* C18: a well-formed updateShowing is rejected for overlap only with a
\* conflict that is another showing of the target room, never the updated
\* showing itself, and never when it keeps room, start and duration.
SelfExclusionOnUpdate ==
    \A id \in DOMAIN sessions : \A body \in SessionBodies :
       WellFormed(body) =>
          LET conflict == checkSessionOverlap(body.hall_id, body.start_at,
                                              body.duration_min, id).conflict
              status == updateShowing(id, body).status
          IN /\ status = "overlap" =>
                  /\ conflict # id
                  /\ conflict \in DOMAIN sessions
                  /\ sessions[conflict].hall_id = body.hall_id
             /\ KeepsPlacement(id, body) => status # "overlap"

\* the reservations of a table other than the given ones
Others(bk, ids) == Restrict(bk, DOMAIN bk \ ids)

EditWithoutCollision ==
    \A r \in DOMAIN bookings : \A body \in BookingBodies \cup DeskBookingBodies :
       LET s == bookings[r].session_id
           name == Trim(body.customer_name)
           n == ToNumber(body.tickets)
           res == editReservation(s, r, body)
       IN (/\ name # ""
           /\ \A o \in BookingsOf(bookings, s) \ {r} : bookings[o].customer_name # name) =>
             /\ res.status \in Successes
                  <=> /\ ~n.nan
                      /\ 1 <= n.v /\ n.v <= MAX_TICKETS_PER_PERSON
                      /\ (Total(s) - bookings[r].tickets) + n.v <= Capacity(s)
             /\ res.status \in Successes =>
                  /\ After(res).bookings
                       = [bookings EXCEPT ![r].customer_name = name, ![r].tickets = n.v]
                  /\ After(res).sessions = sessions

\* a full room with two reservations: re-sending one's own tickets is
\* accepted, asking for more is refused for capacity
EditWithoutCollisionWitness ==
    \E r \in DOMAIN bookings :
       LET s == bookings[r].session_id
           name == bookings[r].customer_name
       IN /\ Total(s) = Capacity(s)
          /\ Cardinality(BookingsOf(bookings, s)) = 2
          /\ editReservation(s, r, CreateBody(name, bookings[r].tickets)).status = "ok"
          /\ editReservation(s, r, CreateBody(name, 8)).status = "capacityFull"

\* C21: a successful transfer of a reservation whose claimant has no
\* reservation at the destination keeps the reservation's id, name and
\* ticket count and changes only its showing reference; the source's total
\* drops and the destination's total grows by the moved tickets, and the
\* number of reservations is unchanged.
TransferMovesSameRecord ==
    \A bid \in DOMAIN bookings : \A to \in DOMAIN sessions :
       LET r == transferReservation(bid, to)
           from == bookings[bid].session_id
           t == bookings[bid].tickets
           after == After(r).bookings
       IN (r.status \in Successes
           /\ Held(bookings, to, bookings[bid].customer_name) = 0) =>
             /\ after = [bookings EXCEPT ![bid].session_id = to]
             /\ TotalIn(after, from) = Total(from) - t
             /\ TotalIn(after, to) = Total(to) + t
             /\ Cardinality(DOMAIN after) = Cardinality(DOMAIN bookings)

\* a reservation moved to a showing that already has another claimant's
\* reservation
TransferMovesWitness ==
    \E bid \in DOMAIN bookings : \E to \in DOMAIN sessions :
       /\ to # bookings[bid].session_id
       /\ Total(to) > 0
       /\ transferReservation(bid, to).status = "moved"

\* C22: a successful createOrMergeReservation for a name that has a
\* reservation in the showing leaves the number of reservations unchanged
\* and raises that reservation, under its id, by the requested count; for a
\* name that has none it adds exactly one reservation with the requested
\* count.
CreateAsMergeKeepsOneRecord ==
    \A s \in DOMAIN sessions : \A body \in BookingBodies \cup DeskBookingBodies :
       LET r == createOrMergeReservation(s, body)
           name == Trim(body.customer_name)
           n == ToNumber(body.tickets).v
           same == { b \in BookingsOf(bookings, s) : bookings[b].customer_name = name }
           after == After(r).bookings
       IN r.status \in Successes =>
             IF same # {}
             THEN \E b \in same :
                     after = [bookings EXCEPT ![b].tickets = bookings[b].tickets + n]
             ELSE /\ Others(after, DOMAIN after \ DOMAIN bookings) = bookings
                  /\ \E b \in DOMAIN after \ DOMAIN bookings :
                        /\ DOMAIN after = DOMAIN bookings \cup {b}
                        /\ after[b] = [session_id |-> s, customer_name |-> name,
                                       tickets |-> n]

\* a showing where one claimant's request is merged and another's creates
\* a reservation
CreateAsMergeWitness ==
    \E s \in DOMAIN sessions :
       /\ createOrMergeReservation(s, CreateBody("Ann", 2)).status = "merged"
       /\ createOrMergeReservation(s, CreateBody("Bob", 2)).status = "created"

\* C23: an updateShowing, accepted or rejected, for a stored or an unknown
\* id, with or without a room change, leaves every reservation as it was.
UpdateKeepsReservations ==
    \A id \in SessionIds : \A body \in SessionBodies :
       After(updateShowing(id, body)).bookings = bookings

\* a showing with reservations that one update moves to the other room and
\* another update may not move, the room being too small
UpdateKeepsReservationsWitness ==
    \E id \in DOMAIN sessions : \E body \in SessionBodies : \E small \in SessionBodies :
       /\ Total(id) > 0
       /\ body.hall_id # sessions[id].hall_id
       /\ updateShowing(id, body).status = "ok"
       /\ \E other \in DOMAIN sessions :
             /\ Total(other) > 0
             /\ updateShowing(other, small).status = "capacityOnRoomChange"

\* the id was given to a showing that has been deleted
Deleted(id) == id <= nextSid /\ id \notin DOMAIN sessions
\* the handler finds nothing and runs no statement
NotFoundUnchanged(r) == r.status = "notFound" /\ After(r) = DB

\* C24: once a showing is deleted, every updateShowing, deleteShowing,
\* getShowingDetail and createOrMergeReservation on its id and every
\* transferReservation to its id is rejected with notFound and changes
\* nothing, and the id is never scheduled again.
ShowingLifecycle ==
    /\ [](\A id \in SessionIds :
            Deleted(id) =>
               /\ \A body \in SessionBodies : NotFoundUnchanged(updateShowing(id, body))
               /\ NotFoundUnchanged(deleteShowing(id))
               /\ NotFoundUnchanged(getShowingDetail(id))
               /\ \A body \in BookingBodies :
                     NotFoundUnchanged(createOrMergeReservation(id, body))
               /\ \A bid \in BookingIds : NotFoundUnchanged(transferReservation(bid, id)))
    /\ [][\A id \in SessionIds : Deleted(id) => Deleted(id)']_vars

\* a deleted showing and a later one holding a reservation, whose transfer
\* to the deleted id finds nothing
ShowingLifecycleWitness ==
    \E id \in SessionIds : \E bid \in DOMAIN bookings :
       /\ Deleted(id)
       /\ bookings[bid].session_id > id
       /\ transferReservation(bid, id).status = "notFound"

\* the body that re-sends a stored showing's start, duration and room under
\* another title
Retitled(id, movie) ==
    [movie |-> movie, start_at |-> sessions[id].start_at,
     duration_min |-> JsNumber(sessions[id].duration_min),
     hall_id |-> sessions[id].hall_id]

FieldRanges ==
    /\ \A b \in DOMAIN bookings :
          /\ bookings[b].tickets \in Int
          /\ 1 <= bookings[b].tickets
          /\ bookings[b].tickets <= MAX_TICKETS_PER_PERSON
    /\ \A s \in DOMAIN sessions :
          /\ sessions[s].duration_min \in Int
          /\ MIN_SESSION_DURATION <= sessions[s].duration_min
          /\ sessions[s].duration_min <= MAX_SESSION_DURATION
          /\ sessions[s].movie # ""

\* a showing of 90 minutes holding a reservation at the per-person limit,
\* next to a showing of 60 minutes
FieldRangesWitness ==
    \E s \in DOMAIN sessions : \E b \in DOMAIN bookings : \E other \in DOMAIN sessions :
       /\ sessions[s].duration_min = 90
       /\ sessions[other].duration_min = MIN_SESSION_DURATION
       /\ bookings[b].tickets = MAX_TICKETS_PER_PERSON
       /\ bookings[b].session_id = s

Outcomes == Rejections \cup Successes

Moved(before, after) ==
    { b \in DOMAIN before \cap DOMAIN after :
        after[b].session_id # before[b].session_id }

\* C28: editReservation and deleteReservation addressed with a showing that
\* is not the reservation's own are rejected with notFound and change
\* nothing; no edit changes the showing of a reservation; and a step that
\* changes the showing of a reservation is a transfer that answered "moved".
ScopedToAddressedShowing ==
    /\ [](\A bid \in DOMAIN bookings, sid \in SessionIds :
            /\ sid # bookings[bid].session_id =>
                 /\ NotFoundUnchanged(deleteReservation(sid, bid))
                 /\ \A body \in BookingBodies :
                      NotFoundUnchanged(editReservation(sid, bid, body))
            /\ \A body \in BookingBodies :
                 Moved(bookings, After(editReservation(sid, bid, body)).bookings) = {})
    /\ [][Moved(bookings, bookings') # {} =>
            \E bid \in DOMAIN bookings, to \in DOMAIN sessions :
               /\ transferReservation(bid, to).status = "moved"
               /\ bookings' = After(transferReservation(bid, to)).bookings
               /\ Moved(bookings, bookings') = {bid}]_vars

\* two showings exist and one holds a reservation: edits and deletes
\* addressed through the other showing are the case of the claim
ScopedWitness ==
    \E bid \in DOMAIN bookings, sid \in DOMAIN sessions :
       /\ sid # bookings[bid].session_id
       /\ \E body \in BookingBodies :
            editReservation(bookings[bid].session_id, bid, body).status = "ok"
       /\ \E to \in DOMAIN sessions : transferReservation(bid, to).status = "moved"

\* a transfer of bid to the showing to that passes the title check and meets
\* no reservation of the same claimant there
TransfersAlone(bid, to) ==
    /\ ~differentMovie(sessions[bookings[bid].session_id], sessions[to])
    /\ findBookingByName(to, bookings[bid].customer_name).none

\* C29: every stored reservation has at most MAX_TICKETS_PER_PERSON tickets,
\* so a transfer that meets no reservation of the same claimant at the
\* destination either moves the reservation or is rejected for capacity,
\* the latter exactly when the destination lacks the seats, and never for
\* the per-person limit; of the two checks the capacity check comes first.
TransferAloneNeverPerPerson ==
    /\ \A b \in DOMAIN bookings :
          bookings[b].tickets \in 1..MAX_TICKETS_PER_PERSON
    /\ \A bid \in DOMAIN bookings, to \in DOMAIN sessions :
          TransfersAlone(bid, to) =>
             LET r == transferReservation(bid, to) IN
             /\ r.status \in {"moved", "capacityFull"}
             /\ r.status = "capacityFull" <=>
                  Total(to) + bookings[bid].tickets > Capacity(to)
    /\ \A t \in 1..(MAX_TICKETS_PER_PERSON + 1), total \in 0..CapHall1,
          capacity \in {CapHall1, CapHall2} :
          /\ total + t > capacity => moveAlone(total, t, capacity) = "capacityFull"
          /\ total + t <= capacity /\ t > MAX_TICKETS_PER_PERSON =>
                moveAlone(total, t, capacity) = "perPersonCap"

\* a reservation of the largest allowed size meets nobody of the same name
\* in another showing of the same title, which lacks the seats for it
TransferAloneWitness ==
    \E bid \in DOMAIN bookings, to \in DOMAIN sessions :
       /\ TransfersAlone(bid, to)
       /\ bookings[bid].tickets = MAX_TICKETS_PER_PERSON
       /\ transferReservation(bid, to).status = "capacityFull"
====
